---- MODULE Spec2Model ----
(***************************************************************************)
(* Country Financial Insights Agent: the data-aggregation core.            *)
(*                                                                         *)
(*   tools/currency_tool.py  get_currency_for_country,                     *)
(*                           get_exchange_rates_for_currency               *)
(*   tools/stock_tool.py     get_country_stock_profile                     *)
(*   tools/maps_tool.py      get_google_maps_link_for_address              *)
(*   agent.py                build_country_financial_profile               *)
(*                                                                         *)
(* Python strings on which the code computes (country names, currency      *)
(* codes, index symbols, addresses, URLs) are sequences of one-character   *)
(* strings, so that strip(), lower(), upper() and quote_plus() are         *)
(* computed character by character.  Strings the code only passes along    *)
(* (display names, message texts) are TLA+ strings.                        *)
(* A Python dict with optional keys is a record whose DOMAIN is the set of *)
(* keys present.  A Python value that may be None is a tagged record.      *)
(***************************************************************************)
EXTENDS Integers, Sequences, FiniteSets, TLC

(***************************************************************************)
(* Bounds of the model.                                                    *)
(***************************************************************************)
\* longest run of whitespace put before and after an input string
MaxPad == 1
\* most target entries of one rates response that are neither absent nor
\* a well-formed {"value": <number>} object
MaxOddEntries == 1

(***************************************************************************)
(* Python values.                                                          *)
(***************************************************************************)
PyNone == [t |-> "None"]
PyStr(s) == [t |-> "str", s |-> s]
PyFloat(n) == [t |-> "float", n |-> n]

\* outcome of evaluating a block of Python: a value, or a raised exception
Ret(v) == [raised |-> FALSE, val |-> v]
Raise(e) == [raised |-> TRUE, exc |-> e]

(***************************************************************************)
(* JSON values as decoded by resp.json().                                  *)
(***************************************************************************)
JNull == [j |-> "null"]
JBool(b) == [j |-> "bool", b |-> b]
JNum(n) == [j |-> "num", n |-> n]
JStr(s) == [j |-> "str", s |-> s]
JList(xs) == [j |-> "list", xs |-> xs]
\* a dict keeps the order of the document: a sequence of key/value entries
JDict(kv) == [j |-> "dict", kv |-> kv]
KV(k, v) == [k |-> k, v |-> v]

\* bool(v)
Truthy(v) ==
  CASE v.j = "null" -> FALSE
    [] v.j = "bool" -> v.b
    [] v.j = "num" -> v.n # 0
    [] v.j = "str" -> v.s # <<>>
    [] v.j = "list" -> v.xs # <<>>
    [] v.j = "dict" -> v.kv # <<>>

HasKey(d, key) == \E i \in 1..Len(d.kv) : d.kv[i].k = key

Lookup(d, key) ==
  d.kv[CHOOSE i \in 1..Len(d.kv) : d.kv[i].k = key /\ \A h \in 1..(i - 1) : d.kv[h].k # key]

\* v.get(key, default)
DictGet(v, key, default) ==
  IF v.j # "dict" THEN Raise("AttributeError")
  ELSE IF HasKey(v, key) THEN Ret(Lookup(v, key).v)
  ELSE Ret(default)

\* v[0]
Index0(v) ==
  CASE v.j = "list" -> IF v.xs = <<>> THEN Raise("IndexError") ELSE Ret(v.xs[1])
    [] v.j = "dict" -> Raise("KeyError")
    [] v.j = "str" -> IF v.s = <<>> THEN Raise("IndexError") ELSE Ret(JStr(<<v.s[1]>>))
    [] OTHER -> Raise("TypeError")

\* key in v   (key is a str)
Contains(key, v) ==
  CASE v.j = "dict" -> Ret(HasKey(v, key))
    [] v.j = "list" -> Ret(\E i \in 1..Len(v.xs) : v.xs[i] = JStr(key))
    [] v.j = "str" -> Ret(\E i \in 0..(Len(v.s) - Len(key)) :
                            SubSeq(v.s, i + 1, i + Len(key)) = key)
    [] OTHER -> Raise("TypeError")

(***************************************************************************)
(* Characters and the string methods the code uses.                        *)
(***************************************************************************)
UpperChars == <<"A","B","C","D","E","F","G","H","I","J","K","L","M",
                "N","O","P","Q","R","S","T","U","V","W","X","Y","Z">>
LowerChars == <<"a","b","c","d","e","f","g","h","i","j","k","l","m",
                "n","o","p","q","r","s","t","u","v","w","x","y","z">>
Digits == <<"0","1","2","3","4","5","6","7","8","9">>
Whitespace == {" ", "\t", "\n", "\r"}

Range(s) == {s[i] : i \in 1..Len(s)}
IndexOf(c, s) == CHOOSE i \in 1..Len(s) : s[i] = c

LowerChar(c) == IF c \in Range(UpperChars) THEN LowerChars[IndexOf(c, UpperChars)] ELSE c
UpperChar(c) == IF c \in Range(LowerChars) THEN UpperChars[IndexOf(c, LowerChars)] ELSE c

\* str.lower(), str.upper()
Lower(s) == [i \in 1..Len(s) |-> LowerChar(s[i])]
Upper(s) == [i \in 1..Len(s) |-> UpperChar(s[i])]

RECURSIVE LStrip(_)
LStrip(s) == IF s # <<>> /\ Head(s) \in Whitespace THEN LStrip(Tail(s)) ELSE s

RECURSIVE RStrip(_)
RStrip(s) ==
  IF s # <<>> /\ s[Len(s)] \in Whitespace THEN RStrip(SubSeq(s, 1, Len(s) - 1)) ELSE s

\* str.strip()
Strip(s) == RStrip(LStrip(s))

\* s[:n]
Take(s, n) == SubSeq(s, 1, IF Len(s) < n THEN Len(s) ELSE n)

\* float(s) of a str: an unsigned decimal integer literal is read, anything
\* else is a ValueError
RECURSIVE DigitsValue(_)
DigitsValue(s) ==
  IF s = <<>> THEN 0
  ELSE 10 * DigitsValue(SubSeq(s, 1, Len(s) - 1)) + (IndexOf(s[Len(s)], Digits) - 1)

\* float(v) of a decoded JSON value
Float(v) ==
  CASE v.j = "num" -> Ret(v.n)
    [] v.j = "bool" -> Ret(IF v.b THEN 1 ELSE 0)
    [] v.j = "str" ->
         LET body == Strip(v.s) IN
         IF body # <<>> /\ Range(body) \subseteq Range(Digits)
         THEN Ret(DigitsValue(body)) ELSE Raise("ValueError")
    [] OTHER -> Raise("TypeError")

(***************************************************************************)
(* String literals of the source, spelled as character sequences.          *)
(***************************************************************************)
k_india == <<"i","n","d","i","a">>
k_united_states == <<"u","n","i","t","e","d"," ","s","t","a","t","e","s">>
k_united_states_of_america == <<"u","n","i","t","e","d"," ","s","t","a","t","e","s"," ","o","f"," ","a","m","e","r","i","c","a">>
k_usa == <<"u","s","a">>
k_japan == <<"j","a","p","a","n">>
k_united_kingdom == <<"u","n","i","t","e","d"," ","k","i","n","g","d","o","m">>
k_uk == <<"u","k">>
k_great_britain == <<"g","r","e","a","t"," ","b","r","i","t","a","i","n">>
k_south_korea == <<"s","o","u","t","h"," ","k","o","r","e","a">>
k_republic_of_korea == <<"r","e","p","u","b","l","i","c"," ","o","f"," ","k","o","r","e","a">>
k_korea_republic_of == <<"k","o","r","e","a",","," ","r","e","p","u","b","l","i","c"," ","o","f">>
k_china == <<"c","h","i","n","a">>
k_people_s_republic_of_china == <<"p","e","o","p","l","e","'","s"," ","r","e","p","u","b","l","i","c"," ","o","f"," ","c","h","i","n","a">>
k_england == <<"e","n","g","l","a","n","d">>
USD == <<"U","S","D">>
INR == <<"I","N","R">>
GBP == <<"G","B","P">>
EUR == <<"E","U","R">>
JPY == <<"J","P","Y">>
KRW == <<"K","R","W">>
CNY == <<"C","N","Y">>

\* COUNTRY_CURRENCY_MAP
COUNTRY_CURRENCY_MAP ==
     (k_india :> [code |-> INR, name |-> "Indian Rupee"])
  @@ (k_united_states :> [code |-> USD, name |-> "United States Dollar"])
  @@ (k_united_states_of_america :> [code |-> USD, name |-> "United States Dollar"])
  @@ (k_usa :> [code |-> USD, name |-> "United States Dollar"])
  @@ (k_japan :> [code |-> JPY, name |-> "Japanese Yen"])
  @@ (k_united_kingdom :> [code |-> GBP, name |-> "Pound Sterling"])
  @@ (k_uk :> [code |-> GBP, name |-> "Pound Sterling"])
  @@ (k_great_britain :> [code |-> GBP, name |-> "Pound Sterling"])
  @@ (k_south_korea :> [code |-> KRW, name |-> "South Korean Won"])
  @@ (k_republic_of_korea :> [code |-> KRW, name |-> "South Korean Won"])
  @@ (k_korea_republic_of :> [code |-> KRW, name |-> "South Korean Won"])
  @@ (k_china :> [code |-> CNY, name |-> "Chinese Yuan Renminbi"])
  @@ (k_people_s_republic_of_china :> [code |-> CNY, name |-> "Chinese Yuan Renminbi"])

\* the StockExchange records of COUNTRY_STOCK_PROFILE
NSE ==
  [name |-> "National Stock Exchange of India (NSE)", city |-> "Mumbai", country |-> "India",
   headquarters_address |->
     <<"E","x","c","h","a","n","g","e"," ","P","l","a","z","a",","," ","B","a","n","d","r","a"," ","K","u","r","l","a"," ","C","o","m","p","l","e","x",","," ","B","a","n","d","r","a"," ","E","a","s","t",","," ","M","u","m","b","a","i",","," ","M","a","h","a","r","a","s","h","t","r","a"," ","4","0","0","0","5","1",","," ","I","n","d","i","a">>,
   indices |-> <<[symbol |-> <<"^","N","S","E","I">>, name |-> "Nifty 50"], [symbol |-> <<"^","C","N","X","1","0","0">>, name |-> "Nifty 100"]>>]
BSE ==
  [name |-> "Bombay Stock Exchange (BSE)", city |-> "Mumbai", country |-> "India",
   headquarters_address |->
     <<"P","h","i","r","o","z","e"," ","J","e","e","j","e","e","b","h","o","y"," ","T","o","w","e","r","s",","," ","D","a","l","a","l"," ","S","t","r","e","e","t",","," ","F","o","r","t",","," ","M","u","m","b","a","i",","," ","M","a","h","a","r","a","s","h","t","r","a"," ","4","0","0","0","0","1",","," ","I","n","d","i","a">>,
   indices |-> <<[symbol |-> <<"^","B","S","E","S","N">>, name |-> "BSE Sensex"]>>]
NYSE ==
  [name |-> "New York Stock Exchange (NYSE)", city |-> "New York", country |-> "United States",
   headquarters_address |->
     <<"1","1"," ","W","a","l","l"," ","S","t",","," ","N","e","w"," ","Y","o","r","k",","," ","N","Y"," ","1","0","0","0","5",","," ","U","S","A">>,
   indices |-> <<[symbol |-> <<"^","G","S","P","C">>, name |-> "S&P 500"], [symbol |-> <<"^","D","J","I">>, name |-> "Dow Jones Industrial Average"]>>]
NASDAQ ==
  [name |-> "NASDAQ Stock Market", city |-> "New York", country |-> "United States",
   headquarters_address |->
     <<"1","5","1"," ","W"," ","4","2","n","d"," ","S","t",","," ","N","e","w"," ","Y","o","r","k",","," ","N","Y"," ","1","0","0","3","6",","," ","U","S","A">>,
   indices |-> <<[symbol |-> <<"^","I","X","I","C">>, name |-> "NASDAQ Composite"]>>]
TSE ==
  [name |-> "Tokyo Stock Exchange (TSE)", city |-> "Tokyo", country |-> "Japan",
   headquarters_address |->
     <<"2","-","1"," ","N","i","h","o","n","b","a","s","h","i"," ","K","a","b","u","t","o","c","h","o",","," ","C","h","u","o"," ","C","i","t","y",","," ","T","o","k","y","o"," ","1","0","3","-","8","2","2","4",","," ","J","a","p","a","n">>,
   indices |-> <<[symbol |-> <<"^","N","2","2","5">>, name |-> "Nikkei 225"], [symbol |-> <<"^","T","O","P","X">>, name |-> "TOPIX"]>>]
LSE ==
  [name |-> "London Stock Exchange (LSE)", city |-> "London", country |-> "United Kingdom",
   headquarters_address |->
     <<"1","0"," ","P","a","t","e","r","n","o","s","t","e","r"," ","S","q","u","a","r","e",","," ","L","o","n","d","o","n"," ","E","C","4","M"," ","7","L","S",","," ","U","n","i","t","e","d"," ","K","i","n","g","d","o","m">>,
   indices |-> <<[symbol |-> <<"^","F","T","S","E">>, name |-> "FTSE 100"], [symbol |-> <<"^","F","T","M","C">>, name |-> "FTSE 250"]>>]
KRX ==
  [name |-> "Korea Exchange (KRX) - Stock Market Division", city |-> "Seoul", country |-> "South Korea",
   headquarters_address |->
     <<"7","6"," ","Y","e","o","u","i","n","a","r","u","-","r","o",","," ","Y","e","o","n","g","d","e","u","n","g","p","o","-","g","u",","," ","S","e","o","u","l",","," ","S","o","u","t","h"," ","K","o","r","e","a">>,
   indices |-> <<[symbol |-> <<"^","K","S","1","1">>, name |-> "KOSPI"], [symbol |-> <<"^","K","Q","1","1">>, name |-> "KOSDAQ"]>>]
SSE ==
  [name |-> "Shanghai Stock Exchange (SSE)", city |-> "Shanghai", country |-> "China",
   headquarters_address |->
     <<"5","2","8"," ","P","u","d","o","n","g"," ","S","o","u","t","h"," ","R","o","a","d",","," ","P","u","d","o","n","g",","," ","S","h","a","n","g","h","a","i",","," ","C","h","i","n","a">>,
   indices |-> <<[symbol |-> <<"0","0","0","0","0","1",".","S","S">>, name |-> "SSE Composite Index"]>>]
SZSE ==
  [name |-> "Shenzhen Stock Exchange (SZSE)", city |-> "Shenzhen", country |-> "China",
   headquarters_address |->
     <<"2","0","1","2"," ","S","h","e","n","n","a","n"," ","B","l","v","d",","," ","F","u","t","i","a","n"," ","D","i","s","t","r","i","c","t",","," ","S","h","e","n","z","h","e","n",","," ","G","u","a","n","g","d","o","n","g",","," ","C","h","i","n","a">>,
   indices |-> <<[symbol |-> <<"3","9","9","0","0","1",".","S","Z">>, name |-> "SZSE Component Index"]>>]

\* COUNTRY_STOCK_PROFILE
COUNTRY_STOCK_PROFILE ==
     (k_india :> <<NSE, BSE>>)
  @@ (k_united_states :> <<NYSE, NASDAQ>>)
  @@ (k_usa :> <<>>)
  @@ (k_united_states_of_america :> <<>>)
  @@ (k_japan :> <<TSE>>)
  @@ (k_united_kingdom :> <<LSE>>)
  @@ (k_uk :> <<>>)
  @@ (k_south_korea :> <<KRX>>)
  @@ (k_china :> <<SSE, SZSE>>)

(***************************************************************************)
(* tools/maps_tool.py                                                      *)
(***************************************************************************)
\* ASCII punctuation and control characters urllib.parse.quote_plus escapes,
\* with their %XX form
PercentCode ==
     ("!" :> <<"%","2","1">>) @@ ("\"" :> <<"%","2","2">>)
     @@ ("#" :> <<"%","2","3">>) @@ ("$" :> <<"%","2","4">>)
     @@ ("%" :> <<"%","2","5">>) @@ ("&" :> <<"%","2","6">>)
     @@ ("'" :> <<"%","2","7">>) @@ ("(" :> <<"%","2","8">>)
     @@ (")" :> <<"%","2","9">>) @@ ("*" :> <<"%","2","A">>)
     @@ ("+" :> <<"%","2","B">>) @@ ("," :> <<"%","2","C">>)
     @@ ("/" :> <<"%","2","F">>) @@ (":" :> <<"%","3","A">>)
     @@ (";" :> <<"%","3","B">>) @@ ("<" :> <<"%","3","C">>)
     @@ ("=" :> <<"%","3","D">>) @@ (">" :> <<"%","3","E">>)
     @@ ("?" :> <<"%","3","F">>) @@ ("@" :> <<"%","4","0">>)
     @@ ("[" :> <<"%","5","B">>) @@ ("\\" :> <<"%","5","C">>)
     @@ ("]" :> <<"%","5","D">>) @@ ("^" :> <<"%","5","E">>)
     @@ ("{" :> <<"%","7","B">>)
     @@ ("|" :> <<"%","7","C">>) @@ ("}" :> <<"%","7","D">>)
     @@ ("\t" :> <<"%","0","9">>) @@ ("\n" :> <<"%","0","A">>)
     @@ ("\r" :> <<"%","0","D">>)

\* characters quote never escapes: letters, digits and "_.-~"
AlwaysSafe == Range(UpperChars) \cup Range(LowerChars) \cup Range(Digits) \cup {"_", ".", "-", "~"}

QuoteChar(c) ==
  IF c \in AlwaysSafe THEN <<c>>
  ELSE IF c = " " THEN <<"+">>
  ELSE PercentCode[c]

\* urllib.parse.quote_plus(s)
RECURSIVE quote_plus(_)
quote_plus(s) == IF s = <<>> THEN <<>> ELSE QuoteChar(Head(s)) \o quote_plus(Tail(s))

MapsSearchPrefix ==
  <<"h","t","t","p","s",":","/","/","w","w","w",".","g","o","o","g","l","e",".","c","o","m","/","m","a","p","s","/","s","e","a","r","c","h","/","?","a","p","i","=","1","&","q","u","e","r","y","=">>

get_google_maps_link_for_address(address) == MapsSearchPrefix \o quote_plus(Strip(address))

(***************************************************************************)
(* Errors.  A message built with an f-string keeps the values formatted    *)
(* into it as fields next to the text.                                     *)
(***************************************************************************)
ErrText(msg) == [msg |-> msg]
ErrStatus(msg, status) == [msg |-> msg, status |-> status]
ErrStatusBody(msg, status, body) == [msg |-> msg, status |-> status, body |-> body]
ErrExc(msg, exc) == [msg |-> msg, exc |-> exc]

\* the network call of a provider, as the code sees it: requests.get either
\* raises or returns a response with a status, a text and a decoded body
HttpRaise(e) == [kind |-> "exception", exc |-> e]
HttpResp(status, text, json) == [kind |-> "response", status |-> status, text |-> text, json |-> json]
JInvalid == [j |-> "invalid"]

\* what an operation did: how its body ended and the network calls it made
Outcome(out, net) == [out |-> out, net |-> net]

(***************************************************************************)
(* tools/currency_tool.py                                                  *)
(***************************************************************************)
\* variant: the country is trimmed but its case is kept
normalize_country_KeepCase(country) == Strip(country)

_normalize_country(country) == Lower(Strip(country))

\* a str taken out of a decoded body is the str itself
PyOfJson(v) == IF v.j = "str" THEN v.s ELSE v

\* variant: the last entry of the mapping is taken
FirstItem_Last(d) == d.kv[Len(d.kv)]

\* next(iter(d.items())) of a non-empty dict
FirstItem(d) == d.kv[1]

\* the try block of get_currency_for_country, after requests.get
CurrencyTry(country, resp) ==
  IF resp.kind = "exception" THEN Raise(resp.exc)
  ELSE IF resp.status # 200
  THEN Ret([country |-> Strip(country),
            error |-> ErrStatus("Failed to resolve currency via RestCountries (status {}).",
                                resp.status)])
  ELSE IF resp.json = JInvalid THEN Raise("JSONDecodeError")
  ELSE LET data == resp.json IN
    IF ~Truthy(data)
    THEN Ret([country |-> Strip(country),
              error |-> ErrText("No country data returned from RestCountries.")])
    ELSE LET first == Index0(data) IN
      IF first.raised THEN first
      ELSE LET got == DictGet(first.val, "currencies", JNull) IN
        IF got.raised THEN got
        ELSE LET currencies == IF Truthy(got.val) THEN got.val ELSE JDict(<<>>) IN
          IF ~Truthy(currencies)
          THEN Ret([country |-> Strip(country),
                    error |-> ErrText("No currency information available for this country.")])
          ELSE IF currencies.j # "dict" THEN Raise("AttributeError")
          ELSE LET code == FirstItem(currencies).k
                   info == FirstItem(currencies).v
                   name == DictGet(info, "name", JStr(""))
               IN IF name.raised THEN name
                  ELSE Ret([country |-> Strip(country),
                            currency_name |-> PyOfJson(name.val),
                            currency_code |-> code,
                            source |-> "restcountries"])

\* variant: the handler lets the exception through
CurrencyExcept_Reraise(country, exc) == Raise(exc)

\* except Exception as exc: of get_currency_for_country
CurrencyExcept(country, exc) ==
  Ret([country |-> Strip(country),
       error |-> ErrExc("Exception while resolving currency: {}", exc)])

RestCountriesCall(country, resp) ==
  [provider |-> "restcountries", name |-> Strip(country), resp |-> resp]

\* get_currency_for_country(country), resp being what the one possible
\* request to RestCountries answers
get_currency_for_country(country, resp) ==
  LET country_norm == _normalize_country(country) IN
  IF country_norm \in DOMAIN COUNTRY_CURRENCY_MAP
  THEN LET mapping == COUNTRY_CURRENCY_MAP[country_norm] IN
       Outcome(Ret([country |-> Strip(country),
                    currency_name |-> mapping.name,
                    currency_code |-> mapping.code,
                    source |-> "local_mapping"]),
               <<>>)
  ELSE LET body == CurrencyTry(country, resp) IN
       Outcome(IF body.raised THEN CurrencyExcept(country, body.exc) ELSE body,
               <<RestCountriesCall(country, resp)>>)

\* target_currencies
target_currencies == <<USD, INR, GBP, EUR>>

\* a Python dict with str keys and float values, and its update d[k] = v
EmptyDict == [c \in {} |-> 0]
DictSet(d, k, v) == [c \in (DOMAIN d) \cup {k} |-> IF c = k THEN v ELSE d[c]]

\* data[code]
Subscript(data, code) ==
  IF data.j = "dict"
  THEN IF HasKey(data, code) THEN Ret(Lookup(data, code).v) ELSE Raise("KeyError")
  ELSE Raise("TypeError")

\* the body of the inner try: float(data[code].get("value", 0.0))
RateOfEntry(data, code) ==
  LET entry == Subscript(data, code) IN
  IF entry.raised THEN entry
  ELSE LET value == DictGet(entry.val, "value", JNum(0)) IN
       IF value.raised THEN value ELSE Float(value.val)

\* the for loop over target_currencies from position i on, rates being the
\* dict built so far; except (TypeError, ValueError): continue
RECURSIVE RatesLoop(_, _, _)
RatesLoop(data, i, rates) ==
  IF i > Len(target_currencies) THEN Ret(rates)
  ELSE LET code == target_currencies[i]
           present == Contains(code, data)
       IN IF present.raised THEN present
          ELSE IF ~present.val THEN RatesLoop(data, i + 1, rates)
          ELSE LET rate == RateOfEntry(data, code) IN
               IF ~rate.raised THEN RatesLoop(data, i + 1, DictSet(rates, code, rate.val))
               ELSE IF rate.exc \in {"TypeError", "ValueError"}
               THEN RatesLoop(data, i + 1, rates)
               ELSE rate

\* variant: anything short of all four targets counts as no rates
NoRates_Incomplete(rates) == DOMAIN rates # Range(target_currencies)

\* not rates
NoRates(rates) == DOMAIN rates = {}

\* the try block of get_exchange_rates_for_currency, after requests.get
RatesTry(base, resp) ==
  IF resp.kind = "exception" THEN Raise(resp.exc)
  ELSE IF resp.status # 200
  THEN Ret([base_currency |-> base,
            error |-> ErrStatusBody("CurrencyAPI request failed with status {}: {}",
                                    resp.status, Take(resp.text, 200))])
  ELSE IF resp.json = JInvalid THEN Raise("JSONDecodeError")
  ELSE LET payload == resp.json
           data == DictGet(payload, "data", JDict(<<>>))
       IN IF data.raised THEN data
          ELSE LET rates == RatesLoop(data.val, 1, EmptyDict) IN
               IF rates.raised THEN rates
               ELSE IF NoRates(rates.val)
               THEN Ret([base_currency |-> base,
                         error |-> ErrText("No valid rates returned by CurrencyAPI.")])
               ELSE Ret([base_currency |-> base,
                         rates |-> rates.val,
                         provider |-> "currencyapi.com"])

\* except Exception as exc: of get_exchange_rates_for_currency
RatesExcept(base, exc) ==
  Ret([base_currency |-> base,
       error |-> ErrExc("Exception while calling CurrencyAPI: {}", exc)])

\* variant: the base currency is left out of the requested targets
CurrencyApiCall_SkipBase(api_key, base, resp) ==
  [provider |-> "currencyapi", apikey |-> api_key.s, base_currency |-> base,
   currencies |-> SelectSeq(target_currencies, LAMBDA c : c # base), resp |-> resp]

CurrencyApiCall(api_key, base, resp) ==
  [provider |-> "currencyapi", apikey |-> api_key.s, base_currency |-> base,
   currencies |-> target_currencies, resp |-> resp]

\* variant: api_key is None
NoApiKey_NoneOnly(api_key) == api_key = PyNone

\* not api_key, for os.getenv("CURRENCY_API_KEY")
NoApiKey(api_key) == api_key = PyNone \/ api_key = PyStr(<<>>)

\* get_exchange_rates_for_currency(currency_code), api_key being the value
\* of CURRENCY_API_KEY and resp what the one possible request answers
get_exchange_rates_for_currency(currency_code, api_key, resp) ==
  LET base == Upper(Strip(currency_code)) IN
  IF NoApiKey(api_key)
  THEN Outcome(Ret([base_currency |-> base,
                    error |-> ErrText("CURRENCY_API_KEY is not set. Sign up at https://currencyapi.com/ and add it to your .env file.")]),
               <<>>)
  ELSE LET body == RatesTry(base, resp) IN
       Outcome(IF body.raised THEN RatesExcept(base, body.exc) ELSE body,
               <<CurrencyApiCall(api_key, base, resp)>>)

(***************************************************************************)
(* tools/stock_tool.py                                                     *)
(***************************************************************************)
\* variant: a key of the catalog is returned even when its list is empty
resolve_profile_key_AnyEntry(country) ==
  LET norm == _normalize_country(country) IN
  IF norm \in DOMAIN COUNTRY_STOCK_PROFILE THEN norm
  ELSE IF norm \in {k_usa, k_united_states_of_america} THEN k_united_states
  ELSE IF norm \in {k_uk, k_great_britain, k_england} THEN k_united_kingdom
  ELSE norm

_resolve_profile_key(country) ==
  LET norm == _normalize_country(country) IN
  IF norm \in DOMAIN COUNTRY_STOCK_PROFILE /\ COUNTRY_STOCK_PROFILE[norm] # <<>> THEN norm
  ELSE IF norm \in {k_usa, k_united_states_of_america} THEN k_united_states
  ELSE IF norm \in {k_uk, k_great_britain, k_england} THEN k_united_kingdom
  ELSE norm

\* what yf.Ticker(symbol).history(period="1d") does: it raises, returns
\* None, or returns a frame whose Close column is a sequence of prices
HistRaise(e) == [kind |-> "exception", exc |-> e]
HistNone == [kind |-> "none"]
HistFrame(close) == [kind |-> "frame", Close |-> close]

\* the try block of _fetch_latest_price
FetchPriceTry(symbol, hist) ==
  IF hist.kind = "exception" THEN Raise(hist.exc)
  ELSE IF hist.kind = "none" \/ hist.Close = <<>> THEN Ret(PyNone)
  ELSE Ret(PyFloat(hist.Close[Len(hist.Close)]))

\* variant: the handler lets the exception through
FetchPriceExcept_Reraise(exc) == Raise(exc)

\* except Exception: of _fetch_latest_price
FetchPriceExcept(exc) == Ret(PyNone)

_fetch_latest_price(symbol, hist) ==
  LET body == FetchPriceTry(symbol, hist) IN
  IF body.raised THEN FetchPriceExcept(body.exc) ELSE body

YFinanceCall(symbol, hist) == [provider |-> "yfinance", symbol |-> symbol, hist |-> hist]

\* the configured exchanges of a country, and their index symbols
ExchangesOf(country) ==
  LET key == _resolve_profile_key(country) IN
  IF key \in DOMAIN COUNTRY_STOCK_PROFILE THEN COUNTRY_STOCK_PROFILE[key] ELSE <<>>

RECURSIVE Concat(_)
Concat(ss) == IF ss = <<>> THEN <<>> ELSE Head(ss) \o Concat(Tail(ss))

\* the index symbols of the exchanges, in the order the loops visit them
IndexSymbols(exchanges) ==
  Concat([e \in 1..Len(exchanges) |->
            [i \in 1..Len(exchanges[e].indices) |-> exchanges[e].indices[i].symbol]])

SymbolsOf(country) == Range(IndexSymbols(ExchangesOf(country)))

\* variant: the empty profile is returned without an error
StockNotConfigured_Silent(country_clean) ==
  [country |-> country_clean, exchanges |-> <<>>]

\* the dict returned when no exchange is configured
StockNotConfigured(country_clean) ==
  [country |-> country_clean,
   exchanges |-> <<>>,
   error |-> ErrText("No stock exchange profile configured for this country.")]

\* get_country_stock_profile(country), quotes[symbol] being what the
\* history request for that symbol answers
get_country_stock_profile(country, quotes) ==
  LET country_clean == Strip(country)
      exchanges == ExchangesOf(country)
      symbols == IndexSymbols(exchanges)
      price(symbol) == _fetch_latest_price(symbol, quotes[symbol])
      raising == {n \in 1..Len(symbols) : price(symbols[n]).raised}
      result_exchanges ==
        [e \in 1..Len(exchanges) |->
           [exchanges[e] EXCEPT !.indices =
              [i \in 1..Len(exchanges[e].indices) |->
                 [symbol |-> exchanges[e].indices[i].symbol,
                  name |-> exchanges[e].indices[i].name,
                  last_price |-> price(exchanges[e].indices[i].symbol).val]]]]
  IN IF exchanges = <<>>
     THEN Outcome(Ret(StockNotConfigured(country_clean)), <<>>)
     ELSE IF raising # {}
     THEN LET n == CHOOSE m \in raising : \A h \in raising : m <= h IN
          Outcome(Raise(price(symbols[n]).exc),
                  [m \in 1..n |-> YFinanceCall(symbols[m], quotes[symbols[m]])])
     ELSE Outcome(Ret([country |-> country_clean, exchanges |-> result_exchanges]),
                  [m \in 1..Len(symbols) |-> YFinanceCall(symbols[m], quotes[symbols[m]])])

\* The objects a call of get_country_stock_profile handles: what it built
\* itself, or the e-th StockExchange of a list of COUNTRY_STOCK_PROFILE.
Built == [home |-> "call"]
Configured(key, e) == [home |-> "COUNTRY_STOCK_PROFILE", key |-> key, e |-> e]

\* variant: vars(ex), the attribute dict of the instance itself
asdict_SameObject(obj) == obj

\* dataclasses.asdict(ex): a new dict, the fields copied recursively
asdict(obj) == Built

\* ex_dict of every exchange of the country, in the order of the loop
ExDicts(country) ==
  [e \in 1..Len(ExchangesOf(country)) |-> asdict(Configured(_resolve_profile_key(country), e))]

\* indices_with_prices of an exchange
IndicesWithPrices(ex, quotes) ==
  [i \in 1..Len(ex.indices) |->
     [symbol |-> ex.indices[i].symbol,
      name |-> ex.indices[i].name,
      last_price |-> _fetch_latest_price(ex.indices[i].symbol, quotes[ex.indices[i].symbol]).val]]

\* the stores obj["indices"] = indices made so far, and those a call adds:
\* only a store to an object of COUNTRY_STOCK_PROFILE reaches the table, and
\* a later store to an object replaces an earlier one
Store(made, new) ==
  LET reaching == {s \in new : s.obj.home = "COUNTRY_STOCK_PROFILE"} IN
  {s \in made : \A n \in reaching : n.obj # s.obj} \cup reaching

\* the stores of get_country_stock_profile(country): the loop stores
\* ex_dict["indices"] = indices_with_prices for every exchange it gets through
StockStores(country, quotes) ==
  LET exchanges == ExchangesOf(country)
      ex_dict == ExDicts(country)
      fetched(e) == \A i \in 1..Len(exchanges[e].indices) :
                      ~_fetch_latest_price(exchanges[e].indices[i].symbol,
                                           quotes[exchanges[e].indices[i].symbol]).raised
      through(e) == \A d \in 1..e : fetched(d)
  IN {[obj |-> ex_dict[e], indices |-> IndicesWithPrices(exchanges[e], quotes)] :
        e \in {d \in 1..Len(exchanges) : ex_dict[d].home # "call" /\ through(d)}}

\* what a caller may do with a profile: exchange["indices"] = [] on every
\* exchange dict it was handed
CallerStores(handed) ==
  {[obj |-> handed[e], indices |-> <<>>] : e \in {d \in 1..Len(handed) : handed[d].home # "call"}}

\* COUNTRY_CURRENCY_MAP and COUNTRY_STOCK_PROFILE as the module holds them
\* after the stores
Tables(made) ==
  [COUNTRY_CURRENCY_MAP |-> COUNTRY_CURRENCY_MAP,
   COUNTRY_STOCK_PROFILE |->
     IF made = {} THEN COUNTRY_STOCK_PROFILE ELSE
     [key \in DOMAIN COUNTRY_STOCK_PROFILE |->
        [e \in 1..Len(COUNTRY_STOCK_PROFILE[key]) |->
           IF \E s \in made : s.obj = Configured(key, e)
           THEN [COUNTRY_STOCK_PROFILE[key][e] EXCEPT
                   !.indices = (CHOOSE s \in made : s.obj = Configured(key, e)).indices]
           ELSE COUNTRY_STOCK_PROFILE[key][e]]]]

(***************************************************************************)
(* agent.py                                                                *)
(***************************************************************************)
\* fx_rates when currency_info has no currency_code
FxUnavailable ==
  [error |-> ErrText("Could not determine currency code for this country; FX rates unavailable.")]

\* variant: the last configured exchange is taken as the main one
MainHqAddress_Last(stock_profile) ==
  LET exchanges == IF "exchanges" \in DOMAIN stock_profile THEN stock_profile.exchanges ELSE <<>> IN
  IF exchanges # <<>> THEN PyStr(exchanges[Len(exchanges)].headquarters_address) ELSE PyNone

\* step 4 of build_country_financial_profile: the address of the first
\* configured exchange and the link built from it
MainHqAddress(stock_profile) ==
  LET exchanges == IF "exchanges" \in DOMAIN stock_profile THEN stock_profile.exchanges ELSE <<>> IN
  IF exchanges # <<>> THEN PyStr(exchanges[1].headquarters_address) ELSE PyNone

MapsLink(main_hq_address) ==
  IF main_hq_address # PyNone /\ main_hq_address.s # <<>>
  THEN PyStr(get_google_maps_link_for_address(main_hq_address.s))
  ELSE PyNone

\* build_country_financial_profile(country) run from call to return, rest
\* and rate being what the RestCountries and CurrencyAPI requests answer and
\* quotes[symbol] what the history request for that symbol answers
build_country_financial_profile(country_arg, api_key, rest, rate, quotes) ==
  LET country == Strip(country_arg)
      currency == get_currency_for_country(country, rest)
  IN IF currency.out.raised THEN currency.out ELSE
     LET currency_info == currency.out.val
         fx == IF "currency_code" \in DOMAIN currency_info
               THEN get_exchange_rates_for_currency(currency_info.currency_code, api_key, rate)
               ELSE Outcome(Ret(FxUnavailable), <<>>)
     IN IF fx.out.raised THEN fx.out ELSE
     LET stocks == get_country_stock_profile(country, quotes)
     IN IF stocks.out.raised THEN stocks.out ELSE
     LET main_hq_address == MainHqAddress(stocks.out.val)
     IN Ret([country |-> country,
             currency |-> currency_info,
             exchange_rates |-> fx.out.val,
             stocks |-> stocks.out.val,
             main_exchange_hq_address |-> main_hq_address,
             google_maps_link |-> MapsLink(main_hq_address)])

(***************************************************************************)
(* Inputs and provider answers.                                            *)
(***************************************************************************)
PadChars == {" ", "\t"}
Pads == UNION {[1..n -> PadChars] : n \in 0..MaxPad}
Padded(words) == {l \o w \o r : l \in Pads, w \in words, r \in Pads}

w_India == <<"I","n","d","i","a">>
w_USA == <<"U","S","A">>
w_United_Kingdom == <<"U","n","i","t","e","d"," ","K","i","n","g","d","o","m">>
w_Japan == <<"J","a","p","a","n">>
w_Wakanda == <<"W","a","k","a","n","d","a">>
w_Atlantis == <<"A","t","l","a","n","t","i","s">>
w_inr == <<"i","n","r">>
XAT == <<"X","A","T">>
XWK == <<"X","W","K">>

CountryWords ==
  {w_India, k_india, w_USA, k_united_states, k_uk, w_United_Kingdom, k_great_britain,
   k_republic_of_korea, w_Japan, k_england, w_Wakanda, w_Atlantis, <<>>,
   k_united_states_of_america, k_south_korea, k_korea_republic_of, k_china,
   k_people_s_republic_of_china}
CountryInputs == Padded(CountryWords)

CodeWords == {INR, w_inr, USD, JPY, XAT}
CodeInputs == Padded(CodeWords)

AddressInputs ==
  Padded({COUNTRY_STOCK_PROFILE[k][e].headquarters_address :
            k \in {k_india, k_united_states}, e \in 1..2})

\* values of the environment variable CURRENCY_API_KEY
ApiKeys == {PyNone, PyStr(<<>>), PyStr(<<"k","1">>)}

\* country objects of a RestCountries body
CurrencyInfoObj(name) == JDict(<<KV("name", JStr(name)), KV("symbol", JStr("$"))>>)
CountryObj(currencies) == JDict(<<KV("name", JStr("Atlantis")), KV("currencies", currencies)>>)
CurrencyMappings ==
  {JDict(<<KV(XAT, CurrencyInfoObj("Atlantean drachma"))>>),
   JDict(<<KV(XAT, CurrencyInfoObj("Atlantean drachma")), KV(USD, CurrencyInfoObj("US dollar"))>>),
   JDict(<<KV(USD, CurrencyInfoObj("US dollar")), KV(XAT, CurrencyInfoObj("Atlantean drachma"))>>),
   JDict(<<KV(w_inr, JDict(<<KV("symbol", JStr("Rs"))>>))>>),
   JDict(<<>>)}
MalformedCurrencies ==
  {JNull, JList(<<JStr(XAT)>>), JDict(<<KV(XAT, JNull)>>), JDict(<<KV(XAT, JStr(XAT))>>)}
CountryObjs ==
  {CountryObj(c) : c \in CurrencyMappings \cup MalformedCurrencies}
    \cup {JDict(<<KV("name", JStr("Atlantis"))>>)}

\* bodies of a RestCountries answer with status 200
RestBodies ==
  {JList(<<o>>) : o \in CountryObjs}
    \cup {JList(<<CountryObj(JDict(<<KV(XWK, CurrencyInfoObj("Wakandan dollar"))>>)),
                  CountryObj(JDict(<<KV(XAT, CurrencyInfoObj("Atlantean drachma"))>>))>>),
          JList(<<>>), JDict(<<>>), JNull,
          JDict(<<KV("status", JNum(404)), KV("message", JStr("Not Found"))>>),
          JList(<<JNull>>), JList(<<JStr(XAT)>>),
          JInvalid}

t_Not_Found == <<"N","o","t"," ","F","o","u","n","d">>
t_Unauthorized == <<"U","n","a","u","t","h","o","r","i","z","e","d">>

RestResponses ==
  {HttpResp(200, <<>>, b) : b \in RestBodies}
    \cup {HttpResp(s, t_Not_Found, JDict(<<KV("status", JNum(s))>>)) : s \in {404, 500}}
    \cup {HttpRaise("ConnectionError")}

\* the value CurrencyAPI quotes for a target in the answers of the model
QuotedValue(code) ==
  CASE code = USD -> 12 [] code = INR -> 83 [] code = GBP -> 9 [] code = EUR -> 11

\* shapes of the entry of one target code in the data of a CurrencyAPI body:
\*   absent      no entry
\*   num         {"code": c, "value": <number>}
\*   novalue     {"code": c}
\*   nullvalue   {"code": c, "value": null}
\*   word        {"code": c, "value": "n/a"}
\*   digits      {"code": c, "value": "7"}
\*   nullentry   null
GoodShapes == {"absent", "num"}
OddShapes == {"novalue", "nullvalue", "word", "digits", "nullentry"}

RateEntry(code, shape) ==
  CASE shape = "num" -> JDict(<<KV("code", JStr(code)), KV("value", JNum(QuotedValue(code)))>>)
    [] shape = "novalue" -> JDict(<<KV("code", JStr(code))>>)
    [] shape = "nullvalue" -> JDict(<<KV("code", JStr(code)), KV("value", JNull)>>)
    [] shape = "word" -> JDict(<<KV("code", JStr(code)), KV("value", JStr(<<"n","/","a">>))>>)
    [] shape = "digits" -> JDict(<<KV("code", JStr(code)), KV("value", JStr(<<"7">>))>>)
    [] shape = "nullentry" -> JNull

\* the data object in which target target_currencies[i] has shape shapes[i]
RECURSIVE RateData(_, _)
RateData(shapes, i) ==
  IF i > Len(target_currencies) THEN <<>>
  ELSE (IF shapes[i] = "absent" THEN <<>>
        ELSE <<KV(target_currencies[i], RateEntry(target_currencies[i], shapes[i]))>>)
       \o RateData(shapes, i + 1)

RatePayload(shapes) ==
  JDict(<<KV("meta", JDict(<<>>)), KV("data", JDict(RateData(shapes, 1)))>>)

RateShapes ==
  {s \in [1..Len(target_currencies) -> GoodShapes \cup OddShapes] :
     Cardinality({i \in DOMAIN s : s[i] \in OddShapes}) <= MaxOddEntries}

RateBodies ==
  {RatePayload(s) : s \in RateShapes}
    \cup {JDict(<<KV("message", JStr(t_Unauthorized))>>),
          JDict(<<KV("data", JNull)>>),
          JDict(<<KV("data", JList(<<>>))>>),
          JList(<<>>),
          JInvalid}

RateResponses ==
  {HttpResp(200, <<>>, b) : b \in RateBodies}
    \cup {HttpResp(s, t_Unauthorized, JDict(<<KV("message", JStr(t_Unauthorized))>>)) : s \in {401, 429}}
    \cup {HttpRaise("Timeout")}

\* answers of a price history request
HistAnswers ==
  {HistRaise("ConnectionError"), HistNone, HistFrame(<<>>), HistFrame(<<100, 102>>)}

\* build_country_financial_profile hands the results of the rate and price
\* requests through unchanged: its runs draw them from these samples
BuildRateResponses ==
  {HttpResp(200, <<>>, RatePayload(s)) :
     s \in {<<"num", "num", "num", "num">>, <<"num", "absent", "num", "num">>,
            <<"absent", "absent", "absent", "absent">>}}
    \cup {HttpResp(401, t_Unauthorized, JDict(<<KV("message", JStr(t_Unauthorized))>>)),
          HttpRaise("Timeout")}
BuildHistAnswers == {HistRaise("ConnectionError"), HistFrame(<<101>>)}

\* the countries and answers of the invocations that run at once
ThreadCountries == {w_India, w_Japan, w_USA, w_Wakanda}
ThreadRestResponses ==
  {HttpResp(200, <<>>, JList(<<CountryObj(JDict(<<KV(XWK, CurrencyInfoObj("Wakandan dollar"))>>))>>)),
   HttpRaise("ConnectionError")}
ThreadRateResponses ==
  {HttpResp(200, <<>>, RatePayload(<<"num", "num", "num", "num">>)), HttpRaise("Timeout")}

(***************************************************************************)
(* The state: one invocation at a time of one of the public functions.     *)
(***************************************************************************)
VARIABLES
  CURRENCY_API_KEY,  \* os.getenv("CURRENCY_API_KEY")
  op,                \* the function being invoked, "idle" when none is
  arg,               \* its argument
  pc,                \* where build_country_financial_profile stands
  locals,            \* the local variables build_country_financial_profile has assigned
  calls,             \* the component functions invoked so far, with their arguments
  net,               \* the network requests issued so far, with their answers
  result,            \* how the invocation ended: a value or a raised exception
  threads,           \* the invocations of build_country_financial_profile running at once
  stored             \* the stores made to objects of the module's tables since it was loaded

vars == <<CURRENCY_API_KEY, op, arg, pc, locals, calls, net, result, threads, stored>>

Pending == [pending |-> TRUE]
NoLocals == [none |-> TRUE]

\* the threads of the server, and the frame of one that has not been called
Threads == {"a", "b"}
NotCalled == [pc |-> "idle", arg |-> <<>>, locals |-> NoLocals, net |-> <<>>, result |-> Pending]
Call(fn, a) == [fn |-> fn, arg |-> a, after |-> Len(net)]

Init ==
  /\ CURRENCY_API_KEY \in ApiKeys
  /\ op = "idle"
  /\ arg = <<>>
  /\ pc = "idle"
  /\ locals = NoLocals
  /\ calls = <<>>
  /\ net = <<>>
  /\ result = Pending
  /\ threads = [t \in Threads |-> NotCalled]
  /\ stored = {}

\* a whole invocation of a function that is not the aggregator
Finish(fn, a, outcome) ==
  /\ op' = fn
  /\ arg' = a
  /\ pc' = "done"
  /\ calls' = <<Call(fn, a)>>
  /\ net' = outcome.net
  /\ result' = outcome.out
  /\ UNCHANGED <<threads, CURRENCY_API_KEY, locals>>

Resolve ==
  /\ pc = "idle"
  /\ UNCHANGED stored
  /\ \E country \in CountryInputs, resp \in RestResponses :
       Finish("get_currency_for_country", country, get_currency_for_country(country, resp))

\* the answers CurrencyAPI can give: without a key it is not asked, and one
\* answer stands for all
Answering(responses) ==
  IF NoApiKey(CURRENCY_API_KEY) THEN {HttpRaise("Timeout")} ELSE responses

Fetch ==
  /\ pc = "idle"
  /\ UNCHANGED stored
  /\ \E code \in CodeInputs, resp \in Answering(RateResponses) :
       Finish("get_exchange_rates_for_currency", code,
              get_exchange_rates_for_currency(code, CURRENCY_API_KEY, resp))

StockResolve ==
  /\ pc = "idle"
  /\ \E country \in CountryInputs :
       \E quotes \in [SymbolsOf(country) -> HistAnswers] :
         /\ Finish("get_country_stock_profile", country, get_country_stock_profile(country, quotes))
         /\ stored' = Store(stored, StockStores(country, quotes))

BuildLink ==
  /\ pc = "idle"
  /\ UNCHANGED stored
  /\ \E address \in AddressInputs :
       Finish("get_google_maps_link_for_address", address,
              Outcome(Ret(get_google_maps_link_for_address(address)), <<>>))

\* variant: the country is passed on as given
BuildCall_Unstripped ==
  /\ pc = "idle"
  /\ \E country \in CountryInputs :
       /\ op' = "build_country_financial_profile"
       /\ arg' = country
       /\ pc' = "currency"
       /\ locals' = [country |-> country]
       /\ UNCHANGED <<threads, stored, CURRENCY_API_KEY, calls, net, result>>

\* build_country_financial_profile(country): country = country.strip()
BuildCall ==
  /\ pc = "idle"
  /\ \E country \in CountryInputs :
       /\ op' = "build_country_financial_profile"
       /\ arg' = country
       /\ pc' = "currency"
       /\ locals' = [country |-> Strip(country)]
       /\ UNCHANGED <<threads, stored, CURRENCY_API_KEY, calls, net, result>>

\* a component call of the aggregator: an exception it raises is not caught
Step(fn, a, outcome, name, next) ==
  /\ calls' = Append(calls, Call(fn, a))
  /\ net' = net \o outcome.net
  /\ IF outcome.out.raised
     THEN /\ result' = outcome.out
          /\ pc' = "done"
          /\ UNCHANGED locals
     ELSE /\ locals' = [f \in (DOMAIN locals) \cup {name} |->
                          IF f = name THEN outcome.out.val ELSE locals[f]]
          /\ pc' = next
          /\ UNCHANGED result
  /\ UNCHANGED <<threads, CURRENCY_API_KEY, op, arg>>

\* currency_info = get_currency_for_country(country)
BuildCurrency ==
  /\ pc = "currency"
  /\ UNCHANGED stored
  /\ \E resp \in RestResponses :
       Step("get_currency_for_country", locals.country,
            get_currency_for_country(locals.country, resp), "currency_info", "fx")

\* if "currency_code" in currency_info: fx_rates = get_exchange_rates_for_currency(...)
BuildRates ==
  /\ pc = "fx"
  /\ "currency_code" \in DOMAIN locals.currency_info
  /\ UNCHANGED stored
  /\ \E resp \in Answering(BuildRateResponses) :
       Step("get_exchange_rates_for_currency", locals.currency_info.currency_code,
            get_exchange_rates_for_currency(locals.currency_info.currency_code,
                                            CURRENCY_API_KEY, resp),
            "fx_rates", "stocks")

\* variant: the rate fetch is skipped whatever currency_info holds
BuildNoRates_Always ==
  /\ pc = "fx"
  /\ locals' = [f \in (DOMAIN locals) \cup {"fx_rates"} |->
                  IF f = "fx_rates" THEN FxUnavailable ELSE locals[f]]
  /\ pc' = "stocks"
  /\ UNCHANGED <<threads, stored, CURRENCY_API_KEY, op, arg, calls, net, result>>

\* else: fx_rates = {"error": ...}
BuildNoRates ==
  /\ pc = "fx"
  /\ "currency_code" \notin DOMAIN locals.currency_info
  /\ locals' = [f \in (DOMAIN locals) \cup {"fx_rates"} |->
                  IF f = "fx_rates" THEN FxUnavailable ELSE locals[f]]
  /\ pc' = "stocks"
  /\ UNCHANGED <<threads, stored, CURRENCY_API_KEY, op, arg, calls, net, result>>

\* stock_profile = get_country_stock_profile(country)
BuildStocks ==
  /\ pc = "stocks"
  /\ \E quotes \in [SymbolsOf(locals.country) -> BuildHistAnswers] :
       /\ Step("get_country_stock_profile", locals.country,
               get_country_stock_profile(locals.country, quotes), "stock_profile", "maps")
       /\ stored' = Store(stored, StockStores(locals.country, quotes))

\* main_hq_address and maps_link
BuildMaps ==
  /\ pc = "maps"
  /\ LET main_hq_address == MainHqAddress(locals.stock_profile)
         maps_link == MapsLink(main_hq_address)
     IN /\ locals' = [f \in (DOMAIN locals) \cup {"main_hq_address", "maps_link"} |->
                        CASE f = "main_hq_address" -> main_hq_address
                          [] f = "maps_link" -> maps_link
                          [] OTHER -> locals[f]]
        /\ calls' = IF maps_link # PyNone
                    THEN Append(calls, Call("get_google_maps_link_for_address", main_hq_address.s))
                    ELSE calls
  /\ pc' = "return"
  /\ UNCHANGED <<threads, stored, CURRENCY_API_KEY, op, arg, net, result>>

\* return {...}
BuildReturn ==
  /\ pc = "return"
  /\ result' = Ret([country |-> locals.country,
                    currency |-> locals.currency_info,
                    exchange_rates |-> locals.fx_rates,
                    stocks |-> locals.stock_profile,
                    main_exchange_hq_address |-> locals.main_hq_address,
                    google_maps_link |-> locals.maps_link])
  /\ pc' = "done"
  /\ UNCHANGED <<threads, stored, CURRENCY_API_KEY, op, arg, locals, calls, net>>

\* the exchange dicts of the profile the invocation handed to its caller
Handed ==
  IF op \in {"get_country_stock_profile", "build_country_financial_profile"} /\ ~result.raised
  THEN ExDicts(IF op = "build_country_financial_profile" THEN locals.country ELSE arg)
  ELSE <<>>

\* the caller takes the result and may change the profile it was handed;
\* the next invocation starts afresh
Reset ==
  /\ pc = "done"
  /\ stored' \in {stored, Store(stored, CallerStores(Handed))}
  /\ op' = "idle"
  /\ arg' = <<>>
  /\ pc' = "idle"
  /\ locals' = NoLocals
  /\ calls' = <<>>
  /\ net' = <<>>
  /\ result' = Pending
  /\ UNCHANGED <<threads, CURRENCY_API_KEY>>

Next ==
  \/ Resolve
  \/ Fetch
  \/ StockResolve
  \/ BuildLink
  \/ BuildCall
  \/ BuildCurrency
  \/ BuildRates
  \/ BuildNoRates
  \/ BuildStocks
  \/ BuildMaps
  \/ BuildReturn
  \/ Reset

Spec == Init /\ [][Next]_vars

(***************************************************************************)
(* Two invocations of build_country_financial_profile at once, for         *)
(* different countries: every thread has its own frame, and the threads    *)
(* share the environment and the module's tables. A step of a thread is    *)
(* one statement of the function, so the statements of the two interleave  *)
(* in every order.                                                         *)
(***************************************************************************)
SameCountry(c, d) == _normalize_country(c) = _normalize_country(d)

OtherCountries(t) ==
  {c \in ThreadCountries :
     \A u \in Threads \ {t} : threads[u].pc = "idle" \/ ~SameCountry(threads[u].arg, c)}

\* variant: country is kept in a variable of the module, which a call
\* overwrites for the invocations that are running
ThreadCall_SharedCountry(t) ==
  /\ threads[t].pc = "idle"
  /\ \E country \in OtherCountries(t) :
       threads' = [u \in Threads |->
                     IF u = t
                     THEN [threads[t] EXCEPT !.pc = "currency", !.arg = country,
                                             !.locals = [country |-> Strip(country)]]
                     ELSE IF threads[u].pc \notin {"idle", "done"}
                     THEN [threads[u] EXCEPT !.locals.country = Strip(country)]
                     ELSE threads[u]]
  /\ UNCHANGED <<stored, CURRENCY_API_KEY, op, arg, pc, locals, calls, net, result>>

\* build_country_financial_profile(country): country = country.strip()
ThreadCall(t) ==
  /\ threads[t].pc = "idle"
  /\ \E country \in OtherCountries(t) :
       threads' = [threads EXCEPT ![t] =
                     [@ EXCEPT !.pc = "currency", !.arg = country,
                               !.locals = [country |-> Strip(country)]]]
  /\ UNCHANGED <<stored, CURRENCY_API_KEY, op, arg, pc, locals, calls, net, result>>

\* a local variable of the frame is assigned
Assigned(frame, name, val) ==
  [f \in (DOMAIN frame.locals) \cup {name} |-> IF f = name THEN val ELSE frame.locals[f]]

\* a component call of a thread: an exception it raises is not caught
ThreadStep(t, outcome, name, next) ==
  /\ threads' = [threads EXCEPT ![t] =
                   IF outcome.out.raised
                   THEN [threads[t] EXCEPT !.net = threads[t].net \o outcome.net,
                                           !.result = outcome.out,
                                           !.pc = "done"]
                   ELSE [threads[t] EXCEPT !.net = threads[t].net \o outcome.net,
                                           !.locals = Assigned(threads[t], name, outcome.out.val),
                                           !.pc = next]]
  /\ UNCHANGED <<CURRENCY_API_KEY, op, arg, pc, locals, calls, net, result>>

\* currency_info = get_currency_for_country(country)
ThreadCurrency(t) ==
  /\ threads[t].pc = "currency"
  /\ UNCHANGED stored
  /\ \E resp \in ThreadRestResponses :
       ThreadStep(t, get_currency_for_country(threads[t].locals.country, resp),
                  "currency_info", "fx")

\* if "currency_code" in currency_info: fx_rates = get_exchange_rates_for_currency(...)
ThreadRates(t) ==
  /\ threads[t].pc = "fx"
  /\ "currency_code" \in DOMAIN threads[t].locals.currency_info
  /\ UNCHANGED stored
  /\ \E resp \in ThreadRateResponses :
       ThreadStep(t, get_exchange_rates_for_currency(threads[t].locals.currency_info.currency_code,
                                                     CURRENCY_API_KEY, resp),
                  "fx_rates", "stocks")

\* else: fx_rates = {"error": ...}
ThreadNoRates(t) ==
  /\ threads[t].pc = "fx"
  /\ "currency_code" \notin DOMAIN threads[t].locals.currency_info
  /\ ThreadStep(t, Outcome(Ret(FxUnavailable), <<>>), "fx_rates", "stocks")
  /\ UNCHANGED stored

\* stock_profile = get_country_stock_profile(country)
ThreadStocks(t) ==
  /\ threads[t].pc = "stocks"
  /\ \E quotes \in [SymbolsOf(threads[t].locals.country) -> BuildHistAnswers] :
       /\ ThreadStep(t, get_country_stock_profile(threads[t].locals.country, quotes),
                     "stock_profile", "maps")
       /\ stored' = Store(stored, StockStores(threads[t].locals.country, quotes))

\* main_hq_address and maps_link
ThreadMaps(t) ==
  /\ threads[t].pc = "maps"
  /\ LET main_hq_address == MainHqAddress(threads[t].locals.stock_profile)
         frame == [threads[t] EXCEPT !.locals = Assigned(threads[t], "main_hq_address", main_hq_address)]
     IN threads' = [threads EXCEPT ![t] =
                      [frame EXCEPT !.locals = Assigned(frame, "maps_link", MapsLink(main_hq_address)),
                                    !.pc = "return"]]
  /\ UNCHANGED <<stored, CURRENCY_API_KEY, op, arg, pc, locals, calls, net, result>>

\* return {...}
ThreadReturn(t) ==
  /\ threads[t].pc = "return"
  /\ LET l == threads[t].locals IN
     threads' = [threads EXCEPT ![t] =
                   [@ EXCEPT !.result = Ret([country |-> l.country,
                                             currency |-> l.currency_info,
                                             exchange_rates |-> l.fx_rates,
                                             stocks |-> l.stock_profile,
                                             main_exchange_hq_address |-> l.main_hq_address,
                                             google_maps_link |-> l.maps_link]),
                             !.pc = "done"]]
  /\ UNCHANGED <<stored, CURRENCY_API_KEY, op, arg, pc, locals, calls, net, result>>

ThreadNext ==
  \/ \E t \in Threads : ThreadCall(t)
  \/ \E t \in Threads : ThreadCurrency(t)
  \/ \E t \in Threads : ThreadRates(t)
  \/ \E t \in Threads : ThreadNoRates(t)
  \/ \E t \in Threads : ThreadStocks(t)
  \/ \E t \in Threads : ThreadMaps(t)
  \/ \E t \in Threads : ThreadReturn(t)

ThreadSpec == Init /\ [][ThreadNext]_vars

(***************************************************************************)
(* Properties.                                                             *)
(***************************************************************************)
Done(fn) == pc = "done" /\ op = fn
Building == op = "build_country_financial_profile"
CallsOf(fn) == {i \in 1..Len(calls) : calls[i].fn = fn}
RequestsTo(provider) == {i \in 1..Len(net) : net[i].provider = provider}
Has(d, field) == field \in DOMAIN d

\* C1: every invocation of get_currency_for_country,
\* get_exchange_rates_for_currency, get_country_stock_profile and
\* build_country_financial_profile ends by returning a dict, whatever the
\* providers answered (status, empty or malformed body, raised exception):
\* no exception leaves the function, a failure is an error field or a null
\* price.
C1_Total ==
  pc = "done" =>
    /\ result # Pending
    /\ ~result.raised
    /\ Done("get_currency_for_country") => Has(result.val, "country")
    /\ Done("get_exchange_rates_for_currency") => Has(result.val, "base_currency")
    /\ Done("get_country_stock_profile") => Has(result.val, "exchanges")
    /\ Done("build_country_financial_profile") => Has(result.val, "stocks")

\* a profile was returned although the request of the currency lookup
\* raised inside the resolver
C1_Witness ==
  /\ Done("build_country_financial_profile")
  /\ ~result.raised
  /\ Has(result.val.currency, "error")
  /\ Has(result.val.currency.error, "exc")
  /\ \E i \in RequestsTo("restcountries") : net[i].resp.kind = "exception"

\* C2: build_country_financial_profile invokes
\* get_exchange_rates_for_currency if and only if currency_info has a
\* currency_code, then once, with that code and after the currency
\* resolution returned; without a code no request goes to the rates
\* provider and exchange_rates holds an error and nothing else.
C2_RatesIffCode ==
  Building =>
    LET fx == CallsOf("get_exchange_rates_for_currency") IN
    /\ ~Has(locals, "currency_info") => fx = {} /\ RequestsTo("currencyapi") = {}
    /\ Has(locals, "fx_rates") =>
         /\ Has(locals.currency_info, "currency_code") <=> fx # {}
         /\ Cardinality(fx) <= 1
         /\ \A i \in fx :
              /\ calls[i].arg = locals.currency_info.currency_code
              /\ \E h \in CallsOf("get_currency_for_country") : h < i
         /\ ~Has(locals.currency_info, "currency_code") =>
              /\ RequestsTo("currencyapi") = {}
              /\ DOMAIN locals.fx_rates = {"error"}
              /\ locals.fx_rates.error.msg =
                   "Could not determine currency code for this country; FX rates unavailable."

\* the profile for "Atlantis" after the remote lookup found nothing
C2_Witness ==
  /\ Done("build_country_financial_profile")
  /\ ~result.raised
  /\ result.val.country = w_Atlantis
  /\ RequestsTo("restcountries") # {}
  /\ Has(result.val.currency, "error")
  /\ result.val.exchange_rates = FxUnavailable

\* C3: whatever the currency resolution and the rate fetch returned,
\* build_country_financial_profile invokes get_country_stock_profile
\* exactly once, with the trimmed country, and returns a dict with the six
\* keys country, currency, exchange_rates, stocks,
\* main_exchange_hq_address and google_maps_link.
C3_NoStepSkipped ==
  Done("build_country_financial_profile") =>
    LET st == CallsOf("get_country_stock_profile") IN
    /\ ~result.raised
    /\ DOMAIN result.val = {"country", "currency", "exchange_rates", "stocks",
                            "main_exchange_hq_address", "google_maps_link"}
    /\ Cardinality(st) = 1
    /\ \A i \in st : calls[i].arg = Strip(arg)
    /\ result.val.country = Strip(arg)

\* a padded input whose rate fetch failed still got its stock profile
C3_Witness ==
  /\ Done("build_country_financial_profile")
  /\ ~result.raised
  /\ arg # Strip(arg)
  /\ Has(result.val.currency, "currency_code")
  /\ Has(result.val.exchange_rates, "error")
  /\ RequestsTo("currencyapi") # {}
  /\ Cardinality(CallsOf("get_country_stock_profile")) = 1
  /\ result.val.stocks.exchanges # <<>>

\* C4: in a returned profile, with no exchange the address and the link are
\* both None; otherwise the address is the headquarters_address of the
\* first exchange the catalog lists for the country and the link is
\* get_google_maps_link_for_address of that address (None for an empty
\* address).  For India that is the link of NSE, not of BSE.
C4_FirstExchange ==
  (Done("build_country_financial_profile") /\ ~result.raised) =>
    LET p == result.val
        listed == ExchangesOf(p.country)
    IN /\ p.stocks.exchanges = <<>> =>
            p.main_exchange_hq_address = PyNone /\ p.google_maps_link = PyNone
       /\ p.stocks.exchanges # <<>> =>
            /\ listed # <<>>
            /\ p.main_exchange_hq_address = PyStr(listed[1].headquarters_address)
            /\ p.google_maps_link =
                 IF listed[1].headquarters_address # <<>>
                 THEN PyStr(get_google_maps_link_for_address(listed[1].headquarters_address))
                 ELSE PyNone
       /\ Lower(p.country) = k_india =>
            /\ p.google_maps_link = PyStr(get_google_maps_link_for_address(NSE.headquarters_address))
            /\ p.google_maps_link # PyStr(get_google_maps_link_for_address(BSE.headquarters_address))

\* the profile of India, with both exchanges and the link of NSE
C4_Witness ==
  /\ Done("build_country_financial_profile")
  /\ ~result.raised
  /\ Lower(result.val.country) = k_india
  /\ Len(result.val.stocks.exchanges) = 2
  /\ result.val.main_exchange_hq_address = PyStr(NSE.headquarters_address)
  /\ result.val.google_maps_link # PyNone

\* C5: a dict returned by get_country_stock_profile has an error exactly
\* when its exchanges are empty: a configured country keeps its exchanges
\* and gets no error even when every price is None, an unconfigured one
\* gets no exchange and an error.
AllPricesNone(profile) ==
  \A e \in 1..Len(profile.exchanges) :
    \A i \in 1..Len(profile.exchanges[e].indices) :
      profile.exchanges[e].indices[i].last_price = PyNone

C5_ErrorIffEmpty ==
  (Done("get_country_stock_profile") /\ ~result.raised) =>
    /\ Has(result.val, "exchanges")
    /\ Has(result.val, "error") <=> result.val.exchanges = <<>>
    /\ ExchangesOf(arg) # <<>> =>
         Len(result.val.exchanges) = Len(ExchangesOf(arg)) /\ ~Has(result.val, "error")
    /\ ExchangesOf(arg) = <<>> =>
         /\ result.val.exchanges = <<>>
         /\ Has(result.val, "error")
         /\ result.val.error.msg # ""

\* every index of a configured country came back without a price
C5_Witness ==
  /\ Done("get_country_stock_profile")
  /\ ~result.raised
  /\ result.val.exchanges # <<>>
  /\ AllPricesNone(result.val)
  /\ ~Has(result.val, "error")
  /\ Len(net) = 3

\* C6: get_currency_for_country sends no request when the trimmed,
\* lower-cased country is a key of COUNTRY_CURRENCY_MAP, whatever the case
\* and the surrounding whitespace of the input, and answers with source
\* local_mapping; otherwise it sends exactly one request to RestCountries,
\* whatever comes back.
C6_RemoteCalls ==
  (Done("get_currency_for_country") /\ ~result.raised) =>
    IF Lower(Strip(arg)) \in DOMAIN COUNTRY_CURRENCY_MAP
    THEN /\ net = <<>>
         /\ Has(result.val, "source")
         /\ result.val.source = "local_mapping"
         /\ result.val.currency_code = COUNTRY_CURRENCY_MAP[Lower(Strip(arg))].code
    ELSE /\ Len(net) = 1
         /\ net[1].provider = "restcountries"
         /\ net[1].name = Strip(arg)

\* a key of the table given in another case and with whitespace around it
C6_Witness ==
  /\ Done("get_currency_for_country")
  /\ ~result.raised
  /\ Strip(arg) # arg
  /\ Lower(Strip(arg)) # Strip(arg)
  /\ Lower(Strip(arg)) \in DOMAIN COUNTRY_CURRENCY_MAP
  /\ net = <<>>
  /\ Has(result.val, "source")

\* the shapes of a RestCountries answer
NonSuccess(resp) == resp.kind = "response" /\ resp.status # 200
Success(resp) == resp.kind = "response" /\ resp.status = 200
EmptyResultSet(resp) == Success(resp) /\ resp.json = JList(<<>>)
FirstCountry(resp) == resp.json.xs[1]
HasFirstCountry(resp) ==
  /\ Success(resp)
  /\ resp.json.j = "list"
  /\ resp.json.xs # <<>>
  /\ FirstCountry(resp).j = "dict"
NoCurrencyEntry(resp) ==
  /\ HasFirstCountry(resp)
  /\ \/ ~HasKey(FirstCountry(resp), "currencies")
     \/ Lookup(FirstCountry(resp), "currencies").v \in {JNull, JDict(<<>>)}
\* a mapping code -> {name, symbol} with at least one entry
HasCurrencyEntry(resp) ==
  /\ HasFirstCountry(resp)
  /\ HasKey(FirstCountry(resp), "currencies")
  /\ LET m == Lookup(FirstCountry(resp), "currencies").v IN
     /\ m.j = "dict"
     /\ m.kv # <<>>
     /\ \A i \in 1..Len(m.kv) : m.kv[i].v.j = "dict"
CurrencyEntries(resp) == Lookup(FirstCountry(resp), "currencies").v.kv

\* C7: on a miss of the table get_currency_for_country returns a dict with
\* exactly one of currency_code and error: for a status other than 200 an
\* error naming the status, for an empty result set the "no country data"
\* error, for a first result without currency entry the different "no
\* currency information" error, and otherwise the first entry of the first
\* result's currency mapping as currency_code and currency_name, with a
\* source that is not local_mapping; further currencies are ignored.
C7_RemoteMapping ==
  (Done("get_currency_for_country") /\ ~result.raised /\ net # <<>>) =>
    LET resp == net[1].resp
        r == result.val
    IN /\ Has(r, "currency_code") # Has(r, "error")
       /\ NonSuccess(resp) =>
            /\ Has(r, "error")
            /\ Has(r.error, "status")
            /\ r.error.status = resp.status
       /\ EmptyResultSet(resp) =>
            /\ Has(r, "error")
            /\ r.error = ErrText("No country data returned from RestCountries.")
       /\ NoCurrencyEntry(resp) =>
            /\ Has(r, "error")
            /\ r.error = ErrText("No currency information available for this country.")
       /\ HasCurrencyEntry(resp) =>
            /\ Has(r, "currency_code")
            /\ r.currency_code = CurrencyEntries(resp)[1].k
            /\ r.currency_name =
                 IF HasKey(CurrencyEntries(resp)[1].v, "name")
                 THEN Lookup(CurrencyEntries(resp)[1].v, "name").v.s
                 ELSE ""
            /\ r.source # "local_mapping"
            /\ r.source = "restcountries"

\* a country with two currencies: the first one is returned
C7_Witness ==
  /\ Done("get_currency_for_country")
  /\ ~result.raised
  /\ net # <<>>
  /\ HasCurrencyEntry(net[1].resp)
  /\ Len(CurrencyEntries(net[1].resp)) = 2
  /\ Has(result.val, "currency_code")
  /\ result.val.currency_code = XAT
  /\ CurrencyEntries(net[1].resp)[2].k = USD

\* C8: with CURRENCY_API_KEY unset or empty,
\* get_exchange_rates_for_currency returns base_currency and an error,
\* without rates, and sends no request; build_country_financial_profile
\* then sends none to the rates provider either, also for a country whose
\* currency is known.
C8_NoCredential ==
  CURRENCY_API_KEY \in {PyNone, PyStr(<<>>)} =>
    /\ RequestsTo("currencyapi") = {}
    /\ (Done("get_exchange_rates_for_currency") /\ ~result.raised) =>
         /\ DOMAIN result.val = {"base_currency", "error"}
         /\ result.val.base_currency = Upper(Strip(arg))
         /\ net = <<>>
    /\ (Building /\ Has(locals, "fx_rates") /\ Has(locals.currency_info, "currency_code")) =>
         /\ Has(locals.fx_rates, "error")
         /\ ~Has(locals.fx_rates, "rates")

\* the profile of a country of the table, built with an empty key
C8_Witness ==
  /\ Done("build_country_financial_profile")
  /\ ~result.raised
  /\ CURRENCY_API_KEY = PyStr(<<>>)
  /\ Has(result.val.currency, "currency_code")
  /\ result.val.currency.source = "local_mapping"
  /\ CallsOf("get_exchange_rates_for_currency") # {}
  /\ Has(result.val.exchange_rates, "error")

\* the data of a CurrencyAPI answer, target by target
HasData(resp) ==
  /\ resp.kind = "response"
  /\ resp.status = 200
  /\ resp.json.j = "dict"
  /\ HasKey(resp.json, "data")
  /\ Lookup(resp.json, "data").v.j = "dict"
DataOf(resp) == Lookup(resp.json, "data").v
Targets == Range(target_currencies)
\* the targets with an entry, and those whose entry holds a number
WithEntry(resp) == {c \in Targets : HasKey(DataOf(resp), c)}
WithNumber(resp) ==
  {c \in WithEntry(resp) :
     LET entry == Lookup(DataOf(resp), c).v IN
     /\ entry.j = "dict"
     /\ HasKey(entry, "value")
     /\ Lookup(entry, "value").v.j = "num"}
NumberOf(resp, c) == Lookup(Lookup(DataOf(resp), c).v, "value").v.n

\* C9: when the data of a 200 answer holds a number for the targets of a
\* set S and no entry for the other targets, get_exchange_rates_for_currency
\* returns, for S not empty, rates with exactly the keys S, the provider
\* and no error, also when S is not all four targets; it returns the "no
\* valid rates" error, and no rates, only for S empty.
C9_PartialSuccess ==
  (Done("get_exchange_rates_for_currency") /\ ~result.raised /\ net # <<>>) =>
    LET resp == net[1].resp
        r == result.val
    IN (HasData(resp) /\ WithEntry(resp) = WithNumber(resp)) =>
         IF WithNumber(resp) # {}
         THEN /\ DOMAIN r = {"base_currency", "rates", "provider"}
              /\ DOMAIN r.rates = WithNumber(resp)
              /\ r.provider = "currencyapi.com"
         ELSE /\ DOMAIN r = {"base_currency", "error"}
              /\ r.error = ErrText("No valid rates returned by CurrencyAPI.")

\* three of the four targets were quoted
C9_Witness ==
  /\ Done("get_exchange_rates_for_currency")
  /\ ~result.raised
  /\ net # <<>>
  /\ HasData(net[1].resp)
  /\ WithEntry(net[1].resp) = WithNumber(net[1].resp)
  /\ Cardinality(WithNumber(net[1].resp)) = 3
  /\ Has(result.val, "rates")
  /\ ~Has(result.val, "error")

\* the targets whose entry holds a value that float() reads
WithReadableValue(resp) ==
  {c \in WithEntry(resp) :
     LET entry == Lookup(DataOf(resp), c).v IN
     /\ entry.j = "dict"
     /\ HasKey(entry, "value")
     /\ ~Float(Lookup(entry, "value").v).raised}

\* C10: in a dict returned by get_exchange_rates_for_currency, every key of
\* rates is one of USD, INR, GBP, EUR and its value is the number the
\* provider returned for that code: a target whose entry has no value, a
\* null value or a value that is not a number is not in rates, and no
\* entry holds a default magnitude.
C10_OnlyReturnedRates ==
  (Done("get_exchange_rates_for_currency") /\ ~result.raised /\ Has(result.val, "rates")) =>
    /\ net # <<>>
    /\ HasData(net[1].resp)
    /\ \A c \in DOMAIN result.val.rates :
         /\ c \in Targets
         /\ c \in WithReadableValue(net[1].resp)
         /\ result.val.rates[c] =
              Float(Lookup(Lookup(DataOf(net[1].resp), c).v, "value").v).val

\* C11: in get_exchange_rates_for_currency a target whose entry does not
\* give a number (a value of the wrong type, a null value, an entry that is
\* null or not an object) is skipped and the call does not fail: every
\* other target with a number is in rates, and there is no error as soon as
\* one target gave a number.
C11_SkipNotFail ==
  (Done("get_exchange_rates_for_currency") /\ ~result.raised /\ net # <<>>) =>
    LET resp == net[1].resp
        r == result.val
    IN (HasData(resp) /\ WithNumber(resp) # {}) =>
         /\ ~Has(r, "error")
         /\ Has(r, "rates")
         /\ \A c \in WithNumber(resp) :
              /\ c \in DOMAIN r.rates
              /\ r.rates[c] = NumberOf(resp, c)

\* the answers the price requests of the invocation got, by symbol
QuotesGiven == [s \in {net[m].symbol : m \in 1..Len(net)} |->
                  net[CHOOSE m \in 1..Len(net) : net[m].symbol = s].hist]

\* the canonical key of an alias key of COUNTRY_STOCK_PROFILE
CanonicalOf(alias) == IF alias = k_uk THEN k_united_kingdom ELSE k_united_states

\* C12: for "usa", "united states of america" and "uk", in any case and
\* with whitespace around, get_country_stock_profile returns the exchanges
\* of "united states" / "united kingdom": the same exchanges and indices in
\* the same order, with the prices the same answers give; the empty lists
\* stored under the alias keys never give empty exchanges or an error.
C12_AliasAsCanonical ==
  (Done("get_country_stock_profile") /\ ~result.raised
     /\ Lower(Strip(arg)) \in {k_usa, k_united_states_of_america, k_uk}) =>
    LET listed == COUNTRY_STOCK_PROFILE[CanonicalOf(Lower(Strip(arg)))]
        r == result.val
    IN /\ ~Has(r, "error")
       /\ r.exchanges # <<>>
       /\ Len(r.exchanges) = Len(listed)
       /\ \A e \in 1..Len(listed) :
            /\ r.exchanges[e].name = listed[e].name
            /\ r.exchanges[e].headquarters_address = listed[e].headquarters_address
            /\ Len(r.exchanges[e].indices) = Len(listed[e].indices)
            /\ \A i \in 1..Len(listed[e].indices) :
                 /\ r.exchanges[e].indices[i].symbol = listed[e].indices[i].symbol
                 /\ r.exchanges[e].indices[i].name = listed[e].indices[i].name
       /\ r.exchanges =
            get_country_stock_profile(CanonicalOf(Lower(Strip(arg))), QuotesGiven).out.val.exchanges

\* "USA" in capitals and padded got the two exchanges of the United States
C12_Witness ==
  /\ Done("get_country_stock_profile")
  /\ ~result.raised
  /\ Lower(Strip(arg)) = k_usa
  /\ arg # k_usa
  /\ Has(result.val, "exchanges")
  /\ Len(result.val.exchanges) = 2
  /\ result.val.exchanges[1].name = NYSE.name

\* the percent-encoding in which a space is %20
RECURSIVE PercentEncoded(_)
PercentEncoded(s) ==
  IF s = <<>> THEN <<>>
  ELSE (IF Head(s) = " " THEN <<"%", "2", "0">> ELSE QuoteChar(Head(s)))
       \o PercentEncoded(Tail(s))

WallStreetLink ==
  <<"h","t","t","p","s",":","/","/","w","w","w",".","g","o","o","g","l","e",".","c","o","m","/","m","a","p","s","/","s","e","a","r","c","h","/","?","a","p","i","=","1","&","q","u","e","r","y","=","1","1","%","2","0","W","a","l","l","%","2","0">>
  \o <<"S","t","%","2","C","%","2","0","N","e","w","%","2","0","Y","o","r","k","%","2","C","%","2","0","N","Y","%","2","0","1","0","0","0","5","%","2","C","%","2","0","U","S","A">>

\* C13: get_google_maps_link_for_address(address) is
\* "https://www.google.com/maps/search/?api=1&query=" followed by the
\* percent-encoding of the trimmed address, every space as %20 and every
\* comma as %2C; for "11 Wall St, New York, NY 10005, USA" it is
\* "https://www.google.com/maps/search/?api=1&query=11%20Wall%20St%2C%20New%20York%2C%20NY%2010005%2C%20USA".
C13_PercentEncodedLink ==
  (Done("get_google_maps_link_for_address") /\ ~result.raised) =>
    /\ result.val = MapsSearchPrefix \o PercentEncoded(Strip(arg))
    /\ Strip(arg) = NYSE.headquarters_address => result.val = WallStreetLink

\* C14 as claimed: when the base currency is one of the four targets,
\* get_exchange_rates_for_currency does not request it against itself: the
\* targets sent to the provider leave the base out and rates has no key
\* equal to base_currency.
C14_BaseExcluded ==
  /\ \A m \in RequestsTo("currencyapi") :
       net[m].base_currency \notin Range(net[m].currencies)
  /\ (Done("get_exchange_rates_for_currency") /\ ~result.raised /\ Has(result.val, "rates")) =>
       result.val.base_currency \notin DOMAIN result.val.rates

\* C14 as amended: whatever the base currency,
\* get_exchange_rates_for_currency requests the four targets USD, INR,
\* GBP, EUR, the base included when it is one of them, for the trimmed and
\* upper-cased code; rates has a key equal to base_currency whenever the
\* answer holds a readable value for it.
C14_FixedTargets ==
  /\ \A m \in RequestsTo("currencyapi") :
       net[m].currencies = <<USD, INR, GBP, EUR>>
  /\ (Done("get_exchange_rates_for_currency") /\ ~result.raised) =>
       /\ \A m \in RequestsTo("currencyapi") : net[m].base_currency = Upper(Strip(arg))
       /\ (Has(result.val, "rates") /\ result.val.base_currency \in WithReadableValue(net[1].resp)) =>
            result.val.base_currency \in DOMAIN result.val.rates

\* rates quoted for base INR hold a rate of INR itself
C14_Witness ==
  /\ Done("get_exchange_rates_for_currency")
  /\ ~result.raised
  /\ Has(result.val, "rates")
  /\ result.val.base_currency = INR
  /\ INR \in DOMAIN result.val.rates
  /\ INR \in Range(net[1].currencies)

\* the price an answer of the market-data provider stands for
QuotedPrice(hist) ==
  IF hist.kind = "frame" /\ hist.Close # <<>>
  THEN PyFloat(hist.Close[Len(hist.Close)])
  ELSE PyNone

\* C15: for a configured country get_country_stock_profile requests the
\* price of every configured index exactly once, in catalog order, and
\* returns every configured exchange in catalog order with one quote per
\* configured index in catalog order; an index whose request gives no
\* history or raises has last_price None, and the last_price of an index
\* follows from the answer to its own request alone, whatever the other
\* requests answered.
C15_IndependentQuotes ==
  (Done("get_country_stock_profile") /\ ExchangesOf(arg) # <<>>) =>
    LET listed == ExchangesOf(arg)
        symbols == IndexSymbols(listed)
    IN /\ ~result.raised
       /\ Len(net) = Len(symbols)
       /\ \A m \in 1..Len(net) : net[m].provider = "yfinance" /\ net[m].symbol = symbols[m]
       /\ Len(result.val.exchanges) = Len(listed)
       /\ \A e \in 1..Len(listed) :
            /\ result.val.exchanges[e].name = listed[e].name
            /\ Len(result.val.exchanges[e].indices) = Len(listed[e].indices)
            /\ \A i \in 1..Len(listed[e].indices) :
                 LET quote == result.val.exchanges[e].indices[i] IN
                 /\ DOMAIN quote = {"symbol", "name", "last_price"}
                 /\ quote.symbol = listed[e].indices[i].symbol
                 /\ quote.name = listed[e].indices[i].name
                 /\ \E m \in 1..Len(net) :
                      /\ net[m].symbol = quote.symbol
                      /\ quote.last_price = QuotedPrice(net[m].hist)

\* of three indices one request raised, one gave no rows and one a price
C15_Witness ==
  /\ Done("get_country_stock_profile")
  /\ ~result.raised
  /\ Len(net) = 3
  /\ net[1].hist.kind = "exception"
  /\ net[2].hist = HistFrame(<<>>)
  /\ net[3].hist = HistFrame(<<100, 102>>)
  /\ result.val.exchanges[1].indices[1].last_price = PyNone
  /\ result.val.exchanges[1].indices[2].last_price = PyNone
  /\ result.val.exchanges[2].indices[1].last_price = PyFloat(102)

\* the answers the providers gave to the requests of a thread
AnswerTo(t, provider, none) ==
  LET asked == {m \in 1..Len(threads[t].net) : threads[t].net[m].provider = provider} IN
  IF asked = {} THEN none ELSE threads[t].net[CHOOSE m \in asked : TRUE].resp

QuotesTo(t) ==
  LET asked == {m \in 1..Len(threads[t].net) : threads[t].net[m].provider = "yfinance"} IN
  [s \in SymbolsOf(threads[t].arg) |->
     IF \E m \in asked : threads[t].net[m].symbol = s
     THEN threads[t].net[CHOOSE m \in asked : threads[t].net[m].symbol = s].hist
     ELSE HistNone]

\* C16: two invocations of build_country_financial_profile for different
\* countries that run at once do not interfere: in every interleaving of
\* their statements and requests, each ends as it would have ended running
\* alone with the country it was called with and the answers its own
\* requests got.
C16_NoInterference ==
  \A t \in Threads :
    threads[t].pc = "done" =>
      threads[t].result =
        build_country_financial_profile(threads[t].arg, CURRENCY_API_KEY,
                                        AnswerTo(t, "restcountries", HttpRaise("ConnectionError")),
                                        AnswerTo(t, "currencyapi", HttpRaise("Timeout")),
                                        QuotesTo(t))

\* both have returned, one a profile of India and one of Wakanda, each after
\* requests of its own
C16_Witness ==
  /\ threads["a"].pc = "done" /\ threads["b"].pc = "done"
  /\ threads["a"].arg = w_India /\ threads["b"].arg = w_Wakanda
  /\ ~threads["a"].result.raised /\ ~threads["b"].result.raised
  /\ threads["a"].result.val.country = w_India
  /\ threads["b"].result.val.country = w_Wakanda
  /\ \E m \in 1..Len(threads["a"].net) : threads["a"].net[m].provider = "yfinance"
  /\ \E m \in 1..Len(threads["b"].net) : threads["b"].net[m].provider = "restcountries"

\* C17: no operation writes to the static tables: after any sequence of
\* calls of the four functions, with any answers of the providers,
\* COUNTRY_CURRENCY_MAP and COUNTRY_STOCK_PROFILE are as the module defined
\* them (no index of the table has a last_price), and every exchange dict of
\* a returned profile is a dict the call built, so that what a caller does to
\* a profile changes nothing a later call reads.
C17_TablesUntouched ==
  LET tables == Tables(stored) IN
  /\ tables.COUNTRY_CURRENCY_MAP = COUNTRY_CURRENCY_MAP
  /\ tables.COUNTRY_STOCK_PROFILE = COUNTRY_STOCK_PROFILE
  /\ \A key \in DOMAIN tables.COUNTRY_STOCK_PROFILE :
       \A e \in 1..Len(tables.COUNTRY_STOCK_PROFILE[key]) :
         \A i \in 1..Len(tables.COUNTRY_STOCK_PROFILE[key][e].indices) :
           ~Has(tables.COUNTRY_STOCK_PROFILE[key][e].indices[i], "last_price")
  /\ pc = "done" => \A e \in 1..Len(Handed) : Handed[e].home = "call"

\* a profile of India with a price was returned, and the table has its two
\* exchanges with their indices as configured
C17_Witness ==
  /\ Done("get_country_stock_profile")
  /\ ~result.raised
  /\ Len(Handed) = 2
  /\ result.val.exchanges[1].indices[1].last_price = PyFloat(102)
  /\ Tables(stored).COUNTRY_STOCK_PROFILE[k_india][1].indices = NSE.indices
  /\ DOMAIN NSE.indices[1] = {"symbol", "name"}

\* C18: the two tables know the same countries: for every key of
\* COUNTRY_CURRENCY_MAP, in any case and with whitespace around,
\* get_country_stock_profile returns exchanges and no error, and
\* build_country_financial_profile never returns a currency found in
\* COUNTRY_CURRENCY_MAP together with a stock profile that has an error.
C18_TablesAgree ==
  /\ (Done("get_country_stock_profile") /\ _normalize_country(arg) \in DOMAIN COUNTRY_CURRENCY_MAP) =>
       /\ ~result.raised
       /\ result.val.exchanges # <<>>
       /\ ~Has(result.val, "error")
  /\ (/\ Done("build_country_financial_profile")
      /\ ~result.raised
      /\ Has(result.val.currency, "source")
      /\ result.val.currency.source = "local_mapping") =>
       ~Has(result.val.stocks, "error")

====
